---- MODULE Spec2Model ----
(***************************************************************************)
(* HlbLexer (language/hlb-pygments.py): the rule tables of the hlb lexer   *)
(* and the scan loop of the RegexLexer it derives from.                    *)
(*                                                                         *)
(* A character is a one-character string, a text a sequence of characters. *)
(* Offsets are 0-based, as in Python: offset p has p characters before it. *)
(* A pattern operator takes the text and the cursor and gives the offset   *)
(* where its match ends, or Fail; it matches AT the cursor (re.match),     *)
(* with the greedy/backtracking outcome of the regular expression.         *)
(***************************************************************************)
EXTENDS Integers, Sequences, FiniteSets, TLC

VARIABLES
  text,        \* the input of this call of get_tokens_unprocessed
  pos,         \* the cursor
  statestack,  \* the stack of state names, top last
  tokens,      \* the tokens yielded so far: (index, ttype, value)
  pc           \* "scan" while the loop runs, "done" after its break

vars == <<text, pos, statestack, tokens, pc>>

-----------------------------------------------------------------------------
(* Character classes of the patterns.                                      *)

Lower ==
  {"a","b","c","d","e","f","g","h","i","j","k","l","m",
   "n","o","p","q","r","s","t","u","v","w","x","y","z"}

Upper ==
  {"A","B","C","D","E","F","G","H","I","J","K","L","M",
   "N","O","P","Q","R","S","T","U","V","W","X","Y","Z"}

Digits == {"0","1","2","3","4","5","6","7","8","9"}

\* [a-fA-F0-9]
HexDigits == {"a","b","c","d","e","f","A","B","C","D","E","F"} \cup Digits

\* [a-zA-Z_], the first character of an identifier
IdentStart == Lower \cup Upper \cup {"_"}

\* [a-zA-Z0-9], the other characters of an identifier
AlNum == Lower \cup Upper \cup Digits

\* [\t ]
Blank == {"\t", " "}

\* (b|B|o|O|x|X)
RadixMarks == {"b","B","o","O","x","X"}

\* [-~]
HeredocMods == {"-", "~"}

\* \w under re.UNICODE: letters, digits and the underscore, over the
\* characters of the inputs
WordChars == Lower \cup Upper \cup Digits \cup {"_"}

-----------------------------------------------------------------------------
(* Matching primitives.                                                    *)

Fail == 0 - 1

\* the character at offset p, "" outside the text
CharAt(t, p) == IF p >= 0 /\ p < Len(t) THEN t[p + 1] ELSE ""

\* t[a:b]
Slice(t, a, b) == SubSeq(t, a + 1, b)

\* \b at offset p: exactly one of the two neighbours is a word character
Boundary(t, p) == (CharAt(t, p - 1) \in WordChars) # (CharAt(t, p) \in WordChars)

\* the literal w at offset p
Lit(t, p, w) == p + Len(w) <= Len(t) /\ Slice(t, p, p + Len(w)) = w

\* the end of the longest run of characters of cls from offset p
RECURSIVE RunEnd(_, _, _)
RunEnd(t, p, cls) == IF CharAt(t, p) \in cls THEN RunEnd(t, p + 1, cls) ELSE p

\* the first alternative that matches, in the order of the alternation
FirstOf(ends) ==
  IF \E i \in DOMAIN ends : ends[i] # Fail
  THEN ends[CHOOSE i \in DOMAIN ends :
              ends[i] # Fail /\ \A j \in 1..(i - 1) : ends[j] = Fail]
  ELSE Fail

\* \bw\b
Word(t, p, w) ==
  IF Boundary(t, p) /\ Lit(t, p, w) /\ Boundary(t, p + Len(w))
  THEN p + Len(w) ELSE Fail

\* (?:[\t ]+)
Blanks(t, p) == LET e == RunEnd(t, p, Blank) IN IF e > p THEN e ELSE Fail

\* \b[a-zA-Z_][a-zA-Z0-9]*\b : the run is the longest one, a shorter run
\* ends between two word characters, where \b fails
Ident(t, p) ==
  IF Boundary(t, p) /\ CharAt(t, p) \in IdentStart
  THEN LET e == RunEnd(t, p + 1, AlNum) IN IF Boundary(t, e) THEN e ELSE Fail
  ELSE Fail

-----------------------------------------------------------------------------
(* The words of the patterns.                                              *)

\* the words the patterns spell out, as texts
W_string == <<"s","t","r","i","n","g">>
W_int == <<"i","n","t">>
W_bool == <<"b","o","o","l">>
W_fs == <<"f","s">>
W_group == <<"g","r","o","u","p">>
W_option == <<"o","p","t","i","o","n">>
W_import == <<"i","m","p","o","r","t">>
W_export == <<"e","x","p","o","r","t">>
W_from == <<"f","r","o","m">>
W_as == <<"a","s">>
W_with == <<"w","i","t","h">>
W_variadic == <<"v","a","r","i","a","d","i","c">>
W_true == <<"t","r","u","e">>
W_false == <<"f","a","l","s","e">>
W_colons == <<":",":">>
W_heredoc == <<"<","<">>

\* (?:copy|frontend|...|template), in the order of the alternation
Members ==
  << <<"c","o","p","y">>,
     <<"f","r","o","n","t","e","n","d">>,
     <<"g","i","t">>,
     <<"h","t","t","p">>,
     <<"i","m","a","g","e">>,
     <<"l","o","c","a","l">>,
     <<"m","k","d","i","r">>,
     <<"m","k","f","i","l","e">>,
     <<"m","o","u","n","t">>,
     <<"r","m">>,
     <<"r","u","n">>,
     <<"s","e","c","r","e","t">>,
     <<"s","s","h">>,
     <<"t","e","m","p","l","a","t","e">> >>

\* the words of the negative lookahead of the block identifier rule
FieldWords ==
  << <<"a","l","l","o","w","E","m","p","t","y","W","i","l","d","c","a","r","d">>,
     <<"a","l","l","o","w","N","o","t","F","o","u","n","d">>,
     <<"a","l","l","o","w","W","i","l","d","c","a","r","d">>,
     <<"c","a","c","h","e">>,
     <<"c","h","e","c","k","s","u","m">>,
     <<"c","h","m","o","d">>,
     <<"c","h","o","w","n">>,
     <<"c","o","n","t","e","n","t","s","O","n","l","y">>,
     <<"c","o","p","y">>,
     <<"c","r","e","a","t","e","D","e","s","t","P","a","t","h">>,
     <<"c","r","e","a","t","e","P","a","r","e","n","t","s">>,
     <<"c","r","e","a","t","e","d","T","i","m","e">>,
     <<"d","i","r">>,
     <<"d","o","c","k","e","r","L","o","a","d">>,
     <<"d","o","c","k","e","r","P","u","s","h">>,
     <<"d","o","w","n","l","o","a","d">>,
     <<"d","o","w","n","l","o","a","d","D","o","c","k","e","r","T","a","r","b","a","l","l">>,
     <<"d","o","w","n","l","o","a","d","O","C","I","T","a","r","b","a","l","l">>,
     <<"d","o","w","n","l","o","a","d","T","a","r","b","a","l","l">>,
     <<"e","n","v">>,
     <<"e","x","c","l","u","d","e","P","a","t","t","e","r","n","s">>,
     <<"f","i","l","e","n","a","m","e">>,
     <<"f","o","l","l","o","w","P","a","t","h","s">>,
     <<"f","o","l","l","o","w","S","y","m","l","i","n","k","s">>,
     <<"f","o","r","m","a","t">>,
     <<"f","o","r","w","a","r","d">>,
     <<"f","r","o","n","t","e","n","d">>,
     <<"g","i","d">>,
     <<"g","i","t">>,
     <<"h","o","s","t">>,
     <<"h","t","t","p">>,
     <<"i","d">>,
     <<"i","g","n","o","r","e","C","a","c","h","e">>,
     <<"i","m","a","g","e">>,
     <<"i","n","c","l","u","d","e","P","a","t","t","e","r","n","s">>,
     <<"i","n","p","u","t">>,
     <<"i","n","s","e","c","u","r","e">>,
     <<"k","e","e","p","G","i","t","D","i","r">>,
     <<"l","o","c","a","l">>,
     <<"l","o","c","a","l","E","n","v">>,
     <<"l","o","c","a","l","P","a","t","h","s">>,
     <<"l","o","c","k","e","d">>,
     <<"m","k","d","i","r">>,
     <<"m","k","f","i","l","e">>,
     <<"m","o","d","e">>,
     <<"m","o","u","n","t">>,
     <<"n","e","t","w","o","r","k">>,
     <<"n","o","d","e">>,
     <<"o","p","t">>,
     <<"p","a","r","a","l","l","e","l">>,
     <<"p","r","i","v","a","t","e">>,
     <<"r","e","a","d","o","n","l","y">>,
     <<"r","e","a","d","o","n","l","y","R","o","o","t","f","s">>,
     <<"r","e","s","o","l","v","e">>,
     <<"r","m">>,
     <<"r","u","n">>,
     <<"s","a","n","d","b","o","x">>,
     <<"s","c","r","a","t","c","h">>,
     <<"s","e","c","r","e","t">>,
     <<"s","e","c","u","r","i","t","y">>,
     <<"s","h","a","r","e","d">>,
     <<"s","o","u","r","c","e","P","a","t","h">>,
     <<"s","s","h">>,
     <<"s","t","r","i","n","g","F","i","e","l","d">>,
     <<"t","a","r","g","e","t">>,
     <<"t","e","m","p","l","a","t","e">>,
     <<"t","m","p","f","s">>,
     <<"u","i","d">>,
     <<"u","n","i","x">>,
     <<"u","n","p","a","c","k">>,
     <<"u","n","s","e","t">>,
     <<"u","s","e","r">>,
     <<"v","a","l","u","e">> >>

-----------------------------------------------------------------------------
(* Matches. A match is where it ends and the spans of its capture groups,  *)
(* as far as the rule's action reads them.                                 *)

NoMatch == [end |-> Fail, groups |-> <<>>]

\* a match that is one capture group
Whole(p, e) ==
  IF e = Fail THEN NoMatch
  ELSE [end |-> e, groups |-> <<[from |-> p, to |-> e]>>]

\* a match made of capture groups that follow one another: group i ends
\* at ends[i]
Parts(p, ends) ==
  IF \E i \in DOMAIN ends : ends[i] = Fail THEN NoMatch
  ELSE [end |-> ends[Len(ends)],
        groups |-> [i \in DOMAIN ends |->
                      [from |-> IF i = 1 THEN p ELSE ends[i - 1], to |-> ends[i]]]]

\* the literal w after a match that ended at p
LitEnd(t, p, w) == IF p # Fail /\ Lit(t, p, w) THEN p + Len(w) ELSE Fail

\* '.' without re.DOTALL: any character but the line feed
Dot(c) == c # "" /\ c # "\n"

RECURSIVE DotRunEnd(_, _)
DotRunEnd(t, p) == IF Dot(CharAt(t, p)) THEN DotRunEnd(t, p + 1) ELSE p

-----------------------------------------------------------------------------
(* The patterns of the rules.                                              *)

\* (#.*)
Comment(t, p) == IF CharAt(t, p) = "#" THEN DotRunEnd(t, p + 1) ELSE Fail

\* \b(0(b|B|o|O|x|X)[a-fA-F0-9]+)\b
Radix(t, p) ==
  IF Boundary(t, p) /\ CharAt(t, p) = "0" /\ CharAt(t, p + 1) \in RadixMarks
  THEN LET e == RunEnd(t, p + 2, HexDigits)
       IN IF e > p + 2 /\ Boundary(t, e) THEN e ELSE Fail
  ELSE Fail


\* Decimal without its first alternative, \b([0-9]+)\b : a leading zero is
\* a digit like the others
Decimal_leadingZero(t, p) ==
  IF Boundary(t, p) /\ CharAt(t, p) \in Digits
  THEN LET e == RunEnd(t, p + 1, Digits)
       IN IF Boundary(t, e) THEN e ELSE Fail
  ELSE Fail

\* \b(0|[1-9][0-9]*)\b
Decimal(t, p) ==
  IF ~Boundary(t, p) THEN Fail
  ELSE IF CharAt(t, p) = "0"
       THEN (IF Boundary(t, p + 1) THEN p + 1 ELSE Fail)
       ELSE IF CharAt(t, p) \in Digits
            THEN LET e == RunEnd(t, p + 1, Digits)
                 IN IF Boundary(t, e) THEN e ELSE Fail
            ELSE Fail

\* \b(true|false)\b
Boolean(t, p) == FirstOf(<<Word(t, p, W_true), Word(t, p, W_false)>>)

\* ((\b(0(b|B|o|O|x|X)[a-fA-F0-9]+)\b)|(\b(0|[1-9][0-9]*)\b)|(\b(true|false)\b))
Number(t, p) == FirstOf(<<Radix(t, p), Decimal(t, p), Boolean(t, p)>>)


\* HeredocSigil without the modifier: (<<)
HeredocSigil_noModifier(t, p) == LitEnd(t, p, W_heredoc)

\* (<<[-~]?) : the modifier is taken when it is there; without it the tag
\* would have to start at the modifier, and no tag does
HeredocSigil(t, p) ==
  LET e == LitEnd(t, p, W_heredoc)
  IN IF e = Fail THEN Fail
     ELSE IF CharAt(t, e) \in HeredocMods THEN e + 1 ELSE e

\* ([A-Z]+) after a match that ended at p
HeredocTag(t, p) ==
  IF p = Fail THEN Fail
  ELSE LET e == RunEnd(t, p, Upper) IN IF e > p THEN e ELSE Fail


\* OptionBare without its lookahead: \boption\b
OptionBare_noLookahead(t, p) == Word(t, p, W_option)

\* \boption(?!::)\b
OptionBare(t, p) ==
  IF Boundary(t, p) /\ Lit(t, p, W_option)
     /\ ~Lit(t, p + Len(W_option), W_colons)
     /\ Boundary(t, p + Len(W_option))
  THEN p + Len(W_option) ELSE Fail

\* member i of (?:copy|...|template) followed by \b, after option::
MemberEnd(t, p, i) ==
  IF Lit(t, p, Members[i]) /\ Boundary(t, p + Len(Members[i]))
  THEN p + Len(Members[i]) ELSE Fail

\* \boption::(?:copy|frontend|...|template)\b
OptionDotted(t, p) ==
  IF Boundary(t, p) /\ Lit(t, p, W_option \o W_colons)
  THEN FirstOf([i \in DOMAIN Members |->
                  MemberEnd(t, p + Len(W_option \o W_colons), i)])
  ELSE Fail


\* TypeName without the dotted family
TypeName_noDotted(t, p) ==
  FirstOf(<<Word(t, p, W_string), Word(t, p, W_int), Word(t, p, W_bool),
            Word(t, p, W_fs), Word(t, p, W_group), OptionBare(t, p)>>)

\* \bstring\b|\bint\b|\bbool\b|\bfs\b|\bgroup\b|\boption(?!::)\b|\boption::(?:...)\b
TypeName(t, p) ==
  FirstOf(<<Word(t, p, W_string), Word(t, p, W_int), Word(t, p, W_bool),
            Word(t, p, W_fs), Word(t, p, W_group),
            OptionBare(t, p), OptionDotted(t, p)>>)

\* \b(import|export|from|as|with|variadic)\b
ControlWord(t, p) ==
  FirstOf(<<Word(t, p, W_import), Word(t, p, W_export), Word(t, p, W_from),
            Word(t, p, W_as), Word(t, p, W_with), Word(t, p, W_variadic)>>)


\* FunctionOpen with + for *, a name of two characters at least:
\* (\b[a-zA-Z_][a-zA-Z0-9]+\b)(\()
FunctionOpen_plus(t, p) ==
  LET e == Ident(t, p)
  IN IF e # Fail /\ e < p + 2 THEN NoMatch
     ELSE Parts(p, <<e, LitEnd(t, e, <<"(">>)>>)

\* (\b[a-zA-Z_][a-zA-Z0-9]*\b)(\()
FunctionOpen(t, p) ==
  LET e == Ident(t, p) IN Parts(p, <<e, LitEnd(t, e, <<"(">>)>>)


\* AsOpen with the leading blanks outside the first group:
\* (?:[\t ]+)(as(?:[\t ]+))(\()
AsOpen_blanksUngrouped(t, p) ==
  LET b == Blanks(t, p)
      e == Blanks(t, LitEnd(t, b, W_as))
      e2 == LitEnd(t, e, <<"(">>)
  IN IF e2 = Fail THEN NoMatch
     ELSE [end |-> e2,
           groups |-> <<[from |-> b, to |-> e], [from |-> e, to |-> e2]>>]

\* ((?:[\t ]+)as(?:[\t ]+))(\()
AsOpen(t, p) ==
  LET e == Blanks(t, LitEnd(t, Blanks(t, p), W_as))
  IN Parts(p, <<e, LitEnd(t, e, <<"(">>)>>)

\* (\b[a-zA-Z_][a-zA-Z0-9]*\b)((?:[\t ]+))(\b[a-zA-Z_][a-zA-Z0-9]*\b)
BindingPair(t, p) ==
  LET e1 == Ident(t, p)
      e2 == Blanks(t, e1)
  IN Parts(p, <<e1, e2, Ident(t, e2)>>)

\* ((?:[\t ]+)with(?:[\t ]+))
WithWord(t, p) == Blanks(t, LitEnd(t, Blanks(t, p), W_with))

\* (as)((?:[\t ]+))(\b[a-zA-Z_][a-zA-Z0-9]*\b)
AsName(t, p) ==
  LET e1 == LitEnd(t, p, W_as)
      e2 == Blanks(t, e1)
  IN Parts(p, <<e1, e2, Ident(t, e2)>>)

\* (as)((?:[\t ]+))(\()
AsBinding(t, p) ==
  LET e1 == LitEnd(t, p, W_as)
      e2 == Blanks(t, e1)
  IN Parts(p, <<e1, e2, LitEnd(t, e2, <<"(">>)>>)


\* TypedBlockOpen with only the dotted type names before the brace
TypedBlockOpen_dottedOnly(t, p) ==
  LET e1 == OptionDotted(t, p)
      e2 == Blanks(t, e1)
  IN Parts(p, <<e1, e2, LitEnd(t, e2, <<"{">>)>>)


\* TypedBlockOpen with * for + in its blanks: (type names)((?:[\t ]*))(\{),
\* a brace right after the type name opens a block too
TypedBlockOpen_blankOptional(t, p) ==
  LET e1 == TypeName(t, p)
      e2 == IF e1 = Fail THEN Fail ELSE RunEnd(t, e1, Blank)
  IN Parts(p, <<e1, e2, LitEnd(t, e2, <<"{">>)>>)

\* (type names)((?:[\t ]+))(\{)
TypedBlockOpen(t, p) ==
  LET e1 == TypeName(t, p)
      e2 == Blanks(t, e1)
  IN Parts(p, <<e1, e2, LitEnd(t, e2, <<"{">>)>>)


\* IsFieldWord without the \b that ends the lookahead: a prefix test
IsFieldWord_prefix(t, p) ==
  \E i \in DOMAIN FieldWords : Lit(t, p, FieldWords[i])

\* (allowEmptyWildcard|...|value)\b at the cursor
IsFieldWord(t, p) ==
  \E i \in DOMAIN FieldWords :
    Lit(t, p, FieldWords[i]) /\ Boundary(t, p + Len(FieldWords[i]))

\* (\b((?!(allowEmptyWildcard|...|value)\b)[a-zA-Z_][a-zA-Z0-9]*\b))
NonFieldIdent(t, p) ==
  IF Boundary(t, p) /\ ~IsFieldWord(t, p) THEN Ident(t, p) ELSE Fail

\* (\")
Quote(t, p) == LitEnd(t, p, <<"\"">>)

\* (<<[-~]?)([A-Z]+)
HeredocOpen(t, p) == LET e == HeredocSigil(t, p) IN Parts(p, <<e, HeredocTag(t, e)>>)


\* ParenClose spelt with the opening parenthesis: (\()
ParenClose_opening(t, p) == LitEnd(t, p, <<"(">>)

\* (\))
ParenClose(t, p) == LitEnd(t, p, <<")">>)

\* (\{)
BraceOpen(t, p) == LitEnd(t, p, <<"{">>)


\* BraceClose spelt with the closing bracket: (\])
BraceClose_bracket(t, p) == LitEnd(t, p, <<"]">>)

\* (\})
BraceClose(t, p) == LitEnd(t, p, <<"}">>)

\* (variadic)
Variadic(t, p) == LitEnd(t, p, W_variadic)



\* Newline with a repetition, (\n|\r|\r\n)+ : a run of line breaks at once
Newline_run(t, p) ==
  LET e == RunEnd(t, p, {"\n", "\r"}) IN IF e > p THEN e ELSE Fail

\* Newline without its line-feed alternative: (\r|\r\n)
Newline_noLineFeed(t, p) ==
  FirstOf(<<LitEnd(t, p, <<"\r">>), LitEnd(t, p, <<"\r", "\n">>)>>)

\* (\n|\r|\r\n) : the first alternative that matches
Newline(t, p) ==
  FirstOf(<<LitEnd(t, p, <<"\n">>), LitEnd(t, p, <<"\r">>),
            LitEnd(t, p, <<"\r", "\n">>)>>)


\* AnyChar as \S instead of the dot: no blank, no line break
AnyChar_nonBlank(t, p) ==
  IF CharAt(t, p) \notin {"", " ", "\t", "\n", "\r"} THEN p + 1 ELSE Fail

\* .
AnyChar(t, p) == IF Dot(CharAt(t, p)) THEN p + 1 ELSE Fail

-----------------------------------------------------------------------------
(* Rules and the state tables.                                             *)

\* no new state
None == "None"

\* the action bygroups(types): one token per capture group
bygroups(types) == [bygroups |-> TRUE, types |-> types]

\* the action that is a token type: one token for the whole match
Plain(ttype) == [bygroups |-> FALSE, types |-> <<ttype>>]

Rule(m, action, new_state) == [m |-> m, action |-> action, new_state |-> new_state]


\* root with the function-name rule moved to the top of the table
root_functionFirst(t, p) ==
  << Rule(FunctionOpen(t, p), bygroups(<<"Name.Variable", "Punctuation">>), "params"),
     Rule(Whole(p, Comment(t, p)), bygroups(<<"Comment.Single">>), None),
     Rule(Whole(p, Number(t, p)), bygroups(<<"Name.Constant">>), None),
     Rule(Whole(p, Quote(t, p)), bygroups(<<"Punctuation">>), "common__1"),
     Rule(HeredocOpen(t, p),
          bygroups(<<"Punctuation", "Name.Constant">>), "common__2"),
     Rule(Whole(p, TypeName(t, p)), bygroups(<<"Keyword.Type">>), None),
     Rule(Whole(p, ControlWord(t, p)), bygroups(<<"Keyword">>), None),
     Rule(Whole(p, ParenClose(t, p)), bygroups(<<"Generic.Error">>), None),
     Rule(AsOpen(t, p), bygroups(<<"Keyword", "Punctuation">>), "params"),
     Rule(Whole(p, ParenClose(t, p)), bygroups(<<"Generic.Error">>), None),
     Rule(Whole(p, BraceOpen(t, p)), bygroups(<<"Punctuation">>), "block"),
     Rule(Whole(p, BraceClose(t, p)), bygroups(<<"Generic.Error">>), None),
     Rule(Whole(p, Ident(t, p)), bygroups(<<"Name.Variable">>), None),
     Rule(Whole(p, Newline(t, p)), Plain("String"), None),
     Rule(Whole(p, AnyChar(t, p)), Plain("String"), None) >>

\* the table of state root, its patterns matched at offset p of t
root(t, p) ==
  << Rule(Whole(p, Comment(t, p)), bygroups(<<"Comment.Single">>), None),
     Rule(Whole(p, Number(t, p)), bygroups(<<"Name.Constant">>), None),
     Rule(Whole(p, Quote(t, p)), bygroups(<<"Punctuation">>), "common__1"),
     Rule(HeredocOpen(t, p),
          bygroups(<<"Punctuation", "Name.Constant">>), "common__2"),
     Rule(Whole(p, TypeName(t, p)), bygroups(<<"Keyword.Type">>), None),
     Rule(Whole(p, ControlWord(t, p)), bygroups(<<"Keyword">>), None),
     Rule(FunctionOpen(t, p), bygroups(<<"Name.Variable", "Punctuation">>), "params"),
     Rule(Whole(p, ParenClose(t, p)), bygroups(<<"Generic.Error">>), None),
     Rule(AsOpen(t, p), bygroups(<<"Keyword", "Punctuation">>), "params"),
     Rule(Whole(p, ParenClose(t, p)), bygroups(<<"Generic.Error">>), None),
     Rule(Whole(p, BraceOpen(t, p)), bygroups(<<"Punctuation">>), "block"),
     Rule(Whole(p, BraceClose(t, p)), bygroups(<<"Generic.Error">>), None),
     Rule(Whole(p, Ident(t, p)), bygroups(<<"Name.Variable">>), None),
     Rule(Whole(p, Newline(t, p)), Plain("String"), None),
     Rule(Whole(p, AnyChar(t, p)), Plain("String"), None) >>

\* the table of state binding
binding(t, p) ==
  << Rule(BindingPair(t, p),
          bygroups(<<"Name.Builtin", "Punctuation", "Name.Variable">>), None),
     Rule(Whole(p, Newline(t, p)), Plain("String"), None),
     Rule(Whole(p, AnyChar(t, p)), Plain("String"), None) >>

\* the table of state block
block(t, p) ==
  << Rule(Whole(p, Comment(t, p)), bygroups(<<"Comment.Single">>), None),
     Rule(Whole(p, Number(t, p)), bygroups(<<"Name.Constant">>), None),
     Rule(Whole(p, Quote(t, p)), bygroups(<<"Punctuation">>), "common__1"),
     Rule(HeredocOpen(t, p),
          bygroups(<<"Punctuation", "Name.Constant">>), "common__2"),
     Rule(Whole(p, WithWord(t, p)), bygroups(<<"Keyword">>), None),
     Rule(AsName(t, p),
          bygroups(<<"Keyword", "Punctuation", "Name.Variable">>), None),
     Rule(AsBinding(t, p),
          bygroups(<<"Keyword", "Punctuation", "Punctuation">>), "binding"),
     Rule(TypedBlockOpen(t, p),
          bygroups(<<"Keyword.Type", "Punctuation", "Punctuation">>), "block"),
     Rule(Whole(p, NonFieldIdent(t, p)), bygroups(<<"Name.Variable">>), None),
     Rule(Whole(p, Ident(t, p)), bygroups(<<"Name.Builtin">>), None),
     Rule(Whole(p, Newline(t, p)), Plain("String"), None),
     Rule(Whole(p, AnyChar(t, p)), Plain("String"), None) >>


\* the table of common__1 with a rule more before the others, (") yielded
\* as a Punctuation token: the quote that ends the string is a delimiter
common__1_closingQuote(t, p) ==
  << Rule(Whole(p, Quote(t, p)), bygroups(<<"Punctuation">>), None),
     Rule(Whole(p, Newline(t, p)), Plain("String"), None),
     Rule(Whole(p, AnyChar(t, p)), Plain("String"), None) >>

\* the table of state common__1 (inside a string)
common__1(t, p) ==
  << Rule(Whole(p, Newline(t, p)), Plain("String"), None),
     Rule(Whole(p, AnyChar(t, p)), Plain("String"), None) >>

\* the table of state common__2 (inside a heredoc)
common__2(t, p) ==
  << Rule(Whole(p, Newline(t, p)), Plain("String"), None),
     Rule(Whole(p, AnyChar(t, p)), Plain("String"), None) >>


\* the table of params with a rule more, (\{) pushing block, before the
\* catch-all rules
params_braceOpens(t, p) ==
  << Rule(Whole(p, Variadic(t, p)), bygroups(<<"Keyword">>), None),
     Rule(Whole(p, TypeName(t, p)), bygroups(<<"Keyword.Type">>), None),
     Rule(Whole(p, Ident(t, p)), bygroups(<<"Name.Variable">>), None),
     Rule(Whole(p, BraceOpen(t, p)), bygroups(<<"Punctuation">>), "block"),
     Rule(Whole(p, Newline(t, p)), Plain("String"), None),
     Rule(Whole(p, AnyChar(t, p)), Plain("String"), None) >>

\* the table of state params
params(t, p) ==
  << Rule(Whole(p, Variadic(t, p)), bygroups(<<"Keyword">>), None),
     Rule(Whole(p, TypeName(t, p)), bygroups(<<"Keyword.Type">>), None),
     Rule(Whole(p, Ident(t, p)), bygroups(<<"Name.Variable">>), None),
     Rule(Whole(p, Newline(t, p)), Plain("String"), None),
     Rule(Whole(p, AnyChar(t, p)), Plain("String"), None) >>

States == {"root", "binding", "block", "common__1", "common__2", "params"}

\* HlbLexer.tokens[state], matched at offset p of t
tokendefs(state, t, p) ==
  CASE state = "root"      -> root(t, p)
    [] state = "binding"   -> binding(t, p)
    [] state = "block"     -> block(t, p)
    [] state = "common__1" -> common__1(t, p)
    [] state = "common__2" -> common__2(t, p)
    [] state = "params"    -> params(t, p)

-----------------------------------------------------------------------------
(* The scan loop.                                                          *)

Top(stack) == stack[Len(stack)]

\* the rules of the table that match at the cursor
Hits(rules) == {i \in DOMAIN rules : rules[i].m.end # Fail}

\* the first of them: the loop over the table breaks at the first match
First(rules) == CHOOSE i \in Hits(rules) : \A j \in Hits(rules) : i <= j

Token(t, index, ttype, to) ==
  [index |-> index, ttype |-> ttype, value |-> Slice(t, index, to)]

\* what the action of rule r yields for its match at offset p of t:
\* bygroups skips a group that matched nothing
Yield(t, p, r) ==
  IF r.action.bygroups
  THEN LET n == Len(r.action.types)
           g(i) == r.m.groups[i]
           RECURSIVE From(_)
           From(i) ==
             IF i > n THEN <<>>
             ELSE (IF g(i).to > g(i).from
                   THEN <<Token(t, g(i).from, r.action.types[i], g(i).to)>>
                   ELSE <<>>) \o From(i + 1)
       IN From(1)
  ELSE <<Token(t, p, r.action.types[1], r.m.end)>>

\* one iteration of the loop with the cursor inside the text, or with a
\* rule that matches at the cursor: the first rule that matches yields its
\* tokens, moves the cursor to the end of its match and pushes its new
\* state; when no rule matches, a line feed resets the stack to root and
\* any other character is yielded as an Error token
Scan ==
  /\ pc = "scan"
  /\ \E rules \in {tokendefs(Top(statestack), text, pos)} :
       \E hits \in {Hits(rules)} :
         IF hits # {}
         THEN \E r \in {rules[CHOOSE i \in hits : \A j \in hits : i <= j]} :
                /\ tokens' = tokens \o Yield(text, pos, r)
                /\ pos' = r.m.end
                /\ statestack' = IF r.new_state = None THEN statestack
                                 ELSE Append(statestack, r.new_state)
         ELSE /\ pos < Len(text)
              /\ pos' = pos + 1
              /\ IF CharAt(text, pos) = "\n"
                 THEN /\ statestack' = <<"root">>
                      /\ tokens' = Append(tokens, Token(text, pos, "Whitespace", pos + 1))
                 ELSE /\ statestack' = statestack
                      /\ tokens' = Append(tokens, Token(text, pos, "Error", pos + 1))
  /\ UNCHANGED <<text, pc>>

\* no rule matches and the cursor is at the end of the text: the loop breaks
Finish ==
  /\ pc = "scan"
  /\ pos >= Len(text)
  /\ Hits(tokendefs(Top(statestack), text, pos)) = {}
  /\ pc' = "done"
  /\ UNCHANGED <<text, pos, statestack, tokens>>

-----------------------------------------------------------------------------
(* The inputs: the texts of the documented scenarios, and every text made  *)
(* of at most MaxFrags of the fragments below.                             *)

MaxFrags == 3

\* fs { option fs { } }
NestedText ==
  <<"f","s"," ","{"," ","o","p","t","i","o","n"," ","f","s"," ","{"," ","}"," ","}">>

\* option::run { }
PriorityText ==
  <<"o","p","t","i","o","n",":",":","r","u","n"," ","{"," ","}">>

\* { chmod 0o755 }
ChmodText == <<"{"," ","c","h","m","o","d"," ","0","o","7","5","5"," ","}">>

\* { myVar 3 }
MyVarText == <<"{"," ","m","y","V","a","r"," ","3"," ","}">>

\* <<~EOF, a body line that opens a block, and the tag again on its own line
HeredocText ==
  <<"<","<","~","E","O","F","\n","f","s"," ","{","\n","E","O","F","\n","}">>

\* )x() : a closing parenthesis in root, and one after a function-name opener
ParenText == <<")","x","(",")">>

\* { option::git { option::mkdir }
DottedBlockText ==
  <<"{"," ","o","p","t","i","o","n",":",":","g","i","t"," ","{"," ",
    "o","p","t","i","o","n",":",":","m","k","d","i","r"," ","}">>

\* true(
TrueCallText ==
  <<"t","r","u","e","(">>

\* import(
ImportCallText ==
  <<"i","m","p","o","r","t","(">>

\* x(variadic fs y{"<<EOF#7) : a parameter list with a brace, a quote, a heredoc opener, a comment and a number in it
ParamsText ==
  <<"x","(","v","a","r","i","a","d","i","c"," ","f","s"," ","y","{","\"","<","<","E","O","F","#","7",")">>

\* {fs {as ( : a block in a block and a binding opener in it
BindingText ==
  <<"{","f","s"," ","{","a","s"," ","(">>

\* 0b12 0o9 0xfF 07 10 0 true : prefixed integers with digits outside their base, a decimal with a leading zero, decimals, a boolean
NumbersText ==
  <<"0","b","1","2"," ","0","o","9"," ","0","x","f","F"," ","0","7"," ","1","0"," ","0"," ","t","r","u","e">>

Scenarios ==
  {NestedText, PriorityText, ChmodText, MyVarText, HeredocText, ParenText,
   DottedBlockText,
   TrueCallText,
   ImportCallText,
   ParamsText,
   BindingText,
   NumbersText}

Fragments ==
  { <<"f","s">>,
    <<"o","p","t","i","o","n",":",":","r","u","n">>,
    <<"c","h","m","o","d">>,
    <<"a","s"," ">>,
    <<" ">>, <<"{">>, <<"}">>, <<"(">>, <<")">>, <<"\"">>,
    <<"<","<">>, <<"~">>, <<"E","O","F">>,
    <<"\n">>, <<"\r">>, <<"#">>, <<"x">>, <<"_">>, <<"7">> }

\* the texts made of at most n fragments
RECURSIVE FragTexts(_)
FragTexts(n) ==
  IF n = 0 THEN {<<>>}
  ELSE LET shorter == FragTexts(n - 1)
       IN shorter \cup {s \o f : s \in shorter, f \in Fragments}

Inputs == Scenarios \cup FragTexts(MaxFrags)

-----------------------------------------------------------------------------
(* The specification: one call of get_tokens_unprocessed(text).            *)

Init ==
  /\ text \in Inputs
  /\ pos = 0
  /\ statestack = <<"root">>
  /\ tokens = <<>>
  /\ pc = "scan"

Next == Scan \/ Finish

Spec == Init /\ [][Next]_vars

-----------------------------------------------------------------------------
(* Properties.                                                             *)

\* the concatenation of the values of a sequence of tokens
RECURSIVE Concat(_)
Concat(toks) == IF toks = <<>> THEN <<>> ELSE Head(toks).value \o Concat(Tail(toks))

\* the tokens the step yields
NewTokens == SubSeq(tokens', Len(tokens) + 1, Len(tokens'))

\* C1 (round trip): the values of the tokens yielded so far, in order, spell
\* the text up to the cursor, and the loop breaks only with the cursor at the
\* end of the text: the values of all tokens spell the text, every capture
\* group of a match included.
C1_RoundTrip ==
  /\ Concat(tokens) = Slice(text, 0, pos)
  /\ pc = "done" => pos = Len(text) /\ Concat(tokens) = text

\* the scan of " as (" is over: the rule of two groups, blanks included,
\* has matched in root
C1_Witness ==
  /\ pc = "done"
  /\ text = <<" ", "a", "s", " ", "(">>
  /\ Len(tokens) = 2
  /\ statestack = <<"root", "params">>

\* a rule of the active table matches at the cursor and takes a character
RuleAdvances ==
  LET rules == tokendefs(Top(statestack), text, pos)
  IN Hits(rules) # {} /\ rules[First(rules)].m.end > pos

\* C2 (totality and progress): while the cursor is inside the text a rule of
\* the active table matches there and takes at least one character; every
\* iteration moves the cursor forward, within the text, and yields no Error
\* token; at the end of the text no rule matches, which is where the loop
\* breaks, and it breaks nowhere else. The cursor rising with every
\* iteration and never passing the end of the text, the loop breaks after
\* at most Len(text) iterations.
C2_Totality ==
  /\ [](pc = "scan" /\ pos < Len(text) => RuleAdvances)
  /\ [](pc = "scan" /\ pos >= Len(text) =>
          pos = Len(text) /\ Hits(tokendefs(Top(statestack), text, pos)) = {})
  /\ [][/\ pc' = "scan" => pos' > pos /\ pos' <= Len(text)
        /\ pc' = "done" => pos = Len(text)
        /\ \A k \in DOMAIN NewTokens :
             NewTokens[k].ttype \notin {"Error", "Whitespace"}]_vars

\* the loop has broken at the end of a text that no classifying rule matches
\* anywhere: a line feed, a carriage return, a tilde
C2_Witness ==
  /\ pc = "done"
  /\ text = <<"\n", "\r", "~">>
  /\ pos = 3
  /\ \A k \in DOMAIN tokens : tokens[k].ttype = "String"

\* C3 (append-only stack): the stack is never empty and root is its bottom;
\* a step leaves the stack as it is or pushes one state on top of it.
C3_AppendOnly ==
  /\ [](Len(statestack) >= 1 /\ statestack[1] = "root")
  /\ [][\/ statestack' = statestack
        \/ \E s \in States : statestack' = Append(statestack, s)]_vars

\* a block and a binding list have been pushed on root, and the blank
\* between "as" and the parenthesis left the stack as it was
C3_Witness ==
  /\ pc = "done"
  /\ text = <<"{", "a", "s", " ", "(">>
  /\ statestack = <<"root", "block", "binding">>

\* C4 (fs { option fs { } }): the stack is root alone up to the first brace,
\* root and one block from there to the nested "fs {", and root and two
\* blocks from there to the end of the text, both closing braces included.
C4_NestedStack ==
  text = NestedText =>
    /\ pos < 4 => statestack = <<"root">>
    /\ pos >= 4 /\ pos < 16 => statestack = <<"root", "block">>
    /\ pos >= 16 => statestack = <<"root", "block", "block">>
    /\ pos \in {0, 2, 3, 4, 5, 11, 12, 16, 17, 18, 19, 20}

\* the outer closing brace has been scanned
C4_Witness ==
  /\ text = NestedText
  /\ pc = "done"
  /\ pos = 20
  /\ statestack = <<"root", "block", "block">>

\* the loop is about to scan character c in one of the states
AtChar(c, states) ==
  pc = "scan" /\ CharAt(text, pos) = c /\ Top(statestack) \in states

\* the step yields one token of type ttype for the character at the cursor
\* and leaves the stack as it is
OneCharToken(ttype) ==
  /\ tokens' = Append(tokens, Token(text, pos, ttype, pos + 1))
  /\ pos' = pos + 1
  /\ statestack' = statestack

\* tok is among the tokens yielded
Yielded(tok) == \E k \in DOMAIN tokens : tokens[k] = tok

\* C5 as claimed: a closing brace scanned in root or in block is yielded as
\* a Generic.Error token and leaves the stack as it is; both closing braces
\* of fs { option fs { } } are yielded as Generic.Error tokens.
C5_AsClaimed ==
  /\ [][AtChar("}", {"root", "block"}) => OneCharToken("Generic.Error")]_vars
  /\ [](text = NestedText /\ pc = "done" =>
          /\ Yielded([index |-> 17, ttype |-> "Generic.Error", value |-> <<"}">>])
          /\ Yielded([index |-> 19, ttype |-> "Generic.Error", value |-> <<"}">>]))

\* C5 as amended: a closing brace scanned in root is yielded as a
\* Generic.Error token; a closing brace scanned in block is yielded as a
\* String token, by the catch-all of the block table; neither changes the
\* stack. Both closing braces of fs { option fs { } } are scanned in block
\* and yielded as String tokens.
C5_BraceClose ==
  /\ [][/\ AtChar("}", {"root"}) => OneCharToken("Generic.Error")
        /\ AtChar("}", {"block"}) => OneCharToken("String")]_vars
  /\ [](text = NestedText /\ pc = "done" =>
          /\ Yielded([index |-> 17, ttype |-> "String", value |-> <<"}">>])
          /\ Yielded([index |-> 19, ttype |-> "String", value |-> <<"}">>]))

\* }{} has been scanned: the first brace in root, the last one in block
C5_Witness ==
  /\ pc = "done"
  /\ text = <<"}", "{", "}">>
  /\ statestack = <<"root", "block">>
  /\ tokens[1].ttype = "Generic.Error"
  /\ tokens[3].ttype = "String"

\* C6 as claimed: a closing parenthesis scanned in root or in params is
\* yielded as a Generic.Error token and leaves the stack as it is.
C6_AsClaimed ==
  [][AtChar(")", {"root", "params"}) => OneCharToken("Generic.Error")]_vars

\* C6 as amended: a closing parenthesis scanned in root is yielded as a
\* Generic.Error token; one scanned in params, such as the one that follows
\* a function-name opener, is yielded as a String token, by the catch-all of
\* the params table; neither changes the stack.
C6_ParenClose ==
  [][/\ AtChar(")", {"root"}) => OneCharToken("Generic.Error")
     /\ AtChar(")", {"params"}) => OneCharToken("String")]_vars

\* )x() has been scanned: the first parenthesis in root, the last in params
C6_Witness ==
  /\ pc = "done"
  /\ text = ParenText
  /\ statestack = <<"root", "params">>
  /\ tokens[1] = [index |-> 0, ttype |-> "Generic.Error", value |-> <<")">>]
  /\ tokens[4] = [index |-> 3, ttype |-> "String", value |-> <<")">>]

\* C7 (priority in root): the first token of option::run { } is the one
\* Keyword.Type token option::run; the cursor never stands inside the name.
C7_Priority ==
  text = PriorityText /\ pos > 0 =>
    /\ tokens[1] = [index |-> 0, ttype |-> "Keyword.Type",
                    value |-> SubSeq(PriorityText, 1, 11)]
    /\ pos >= 11

\* option::run { } has been scanned to its end
C7_Witness ==
  /\ text = PriorityText
  /\ pc = "done"
  /\ statestack = <<"root", "block">>
  /\ tokens[1].ttype = "Keyword.Type"

\* where the dotted type name that starts at offset p as a whole word ends,
\* Fail when none does
DottedNameEnd(t, p) ==
  LET q == p + Len(W_option) + Len(W_colons)
      ms == {i \in DOMAIN Members :
               Lit(t, q, Members[i]) /\ Boundary(t, q + Len(Members[i]))}
  IN IF Boundary(t, p) /\ Lit(t, p, W_option \o W_colons) /\ ms # {}
     THEN q + Len(Members[CHOOSE i \in ms : TRUE])
     ELSE Fail

\* blanks and an opening brace follow offset e
BraceFollows(t, e) ==
  LET b == RunEnd(t, e, Blank) IN b > e /\ CharAt(t, b) = "{"

\* C8 as claimed: in root, params and block, a dotted type name at the
\* cursor is yielded as one Keyword.Type token, whatever follows it.
C8_AsClaimed ==
  [][pc = "scan" /\ Top(statestack) \in {"root", "params", "block"}
       /\ DottedNameEnd(text, pos) # Fail
     => /\ NewTokens # <<>>
        /\ NewTokens[1] =
             Token(text, pos, "Keyword.Type", DottedNameEnd(text, pos))]_vars

\* C8 as amended: in root and params a dotted type name at the cursor is
\* yielded as one Keyword.Type token, whatever follows it. In block it is
\* one Keyword.Type token only when blanks and an opening brace follow it
\* (the blanks and the brace are yielded as Punctuation and block is
\* pushed); otherwise the block table splits it, and "option" is yielded as
\* a Name.Variable token. In { option::git { option::mkdir } the name
\* option::git is one token and option::mkdir is split into option, two
\* colons (String) and mkdir (Name.Builtin).
C8_DottedNames ==
  /\ [][pc = "scan" /\ DottedNameEnd(text, pos) # Fail =>
          LET e == DottedNameEnd(text, pos)
              b == RunEnd(text, e, Blank)
          IN /\ Top(statestack) \in {"root", "params"} =>
                  /\ NewTokens = <<Token(text, pos, "Keyword.Type", e)>>
                  /\ statestack' = statestack
             /\ Top(statestack) = "block" /\ BraceFollows(text, e) =>
                  /\ NewTokens = <<Token(text, pos, "Keyword.Type", e),
                                   Token(text, e, "Punctuation", b),
                                   Token(text, b, "Punctuation", b + 1)>>
                  /\ statestack' = Append(statestack, "block")
             /\ Top(statestack) = "block" /\ ~BraceFollows(text, e) =>
                  /\ NewTokens = <<Token(text, pos, "Name.Variable",
                                         pos + Len(W_option))>>
                  /\ statestack' = statestack]_vars
  /\ [](text = DottedBlockText /\ pc = "done" =>
          /\ Yielded(Token(text, 2, "Keyword.Type", 13))
          /\ Yielded(Token(text, 16, "Name.Variable", 22))
          /\ Yielded(Token(text, 22, "String", 23))
          /\ Yielded(Token(text, 23, "String", 24))
          /\ Yielded(Token(text, 24, "Name.Builtin", 29)))

\* { option::git { option::mkdir } has been scanned: one dotted name opened
\* a block, the other was split
C8_Witness ==
  /\ text = DottedBlockText
  /\ pc = "done"
  /\ statestack = <<"root", "block", "block">>
  /\ Yielded(Token(text, 2, "Keyword.Type", 13))
  /\ Yielded(Token(text, 16, "Name.Variable", 22))

\* the closed set of option-field words
FieldSet == {FieldWords[i] : i \in DOMAIN FieldWords}

\* the words that are literals, type keywords or control keywords
ReservedWords ==
  {W_true, W_false, W_string, W_int, W_bool, W_fs, W_group, W_option,
   W_import, W_export, W_from, W_as, W_with, W_variadic}

IdentKinds == {"Name.Builtin", "Name.Variable"}

\* the texts chmod 0o755 and myVar 3 inside a block, scanned to the end
C9_Scenarios ==
  /\ text = ChmodText /\ pc = "done" =>
       /\ Yielded(Token(text, 2, "Name.Builtin", 7))
       /\ Yielded(Token(text, 8, "Name.Constant", 13))
  /\ text = MyVarText /\ pc = "done" =>
       /\ Yielded(Token(text, 2, "Name.Variable", 7))
       /\ Yielded(Token(text, 8, "Name.Constant", 9))

\* C9 as claimed: an identifier token yielded in block is a Name.Builtin
\* token (the option-field kind) exactly when its word is in the closed set,
\* and a Name.Variable token (the generic kind) otherwise; 0o755 and 3 are
\* Name.Constant tokens.
C9_AsClaimed ==
  /\ [][pc = "scan" /\ Top(statestack) = "block" =>
          \A k \in DOMAIN NewTokens :
            NewTokens[k].ttype \in IdentKinds =>
              (NewTokens[k].ttype = "Name.Builtin"
                 <=> NewTokens[k].value \in FieldSet)]_vars
  /\ []C9_Scenarios

\* token k of the step is the name that the rule for "as", blanks and a
\* name binds
BoundByAs(k) ==
  /\ k = 3
  /\ Len(NewTokens) = 3
  /\ NewTokens[1].ttype = "Keyword"
  /\ NewTokens[1].value = W_as

\* C9 as amended: an identifier token yielded in block is a Name.Builtin
\* token exactly when its word is in the closed set and it is not the name
\* bound by "as" and blanks before it, which is a Name.Variable token even
\* when it is in the set (as chmod). A word of the set at the cursor is
\* yielded as one Name.Builtin token, and a word at the cursor that is
\* neither in the set nor a literal, type or control word (myVar, chmodx)
\* as one Name.Variable token; 0o755 and 3 are Name.Constant tokens.
C9_ClosedSet ==
  /\ [][pc = "scan" /\ Top(statestack) = "block" =>
          /\ \A k \in DOMAIN NewTokens :
               NewTokens[k].ttype \in IdentKinds =>
                 (NewTokens[k].ttype = "Name.Builtin"
                    <=> NewTokens[k].value \in FieldSet /\ ~BoundByAs(k))
          /\ Ident(text, pos) # Fail =>
               LET e == Ident(text, pos)
                   w == Slice(text, pos, e)
               IN /\ w \in FieldSet =>
                       NewTokens = <<Token(text, pos, "Name.Builtin", e)>>
                  /\ w \notin FieldSet \cup ReservedWords =>
                       NewTokens = <<Token(text, pos, "Name.Variable", e)>>]_vars
  /\ []C9_Scenarios

\* {as chmod has been scanned: chmod, bound by "as", is a Name.Variable token
C9_Witness ==
  /\ pc = "done"
  /\ text = <<"{", "a", "s", " ", "c", "h", "m", "o", "d">>
  /\ tokens[4] = Token(text, 4, "Name.Variable", 9)

\* a heredoc opener stands at offset p: <<, a modifier or none, a capital
HeredocAt(t, p) ==
  /\ Lit(t, p, W_heredoc)
  /\ \/ CharAt(t, p + 2) \in Upper
     \/ CharAt(t, p + 2) \in HeredocMods /\ CharAt(t, p + 3) \in Upper

\* C10 (heredoc tagging): a heredoc opener at the cursor in root or block
\* is yielded as a Punctuation token for << and its modifier and a
\* Name.Constant token for the run of capitals, and common__2 is pushed;
\* with common__2 on top every step yields one String token and leaves the
\* stack as it is, to the end of the text, the tag on a later line included.
C10_Heredoc ==
  /\ [][pc = "scan" /\ Top(statestack) \in {"root", "block"}
          /\ HeredocAt(text, pos) =>
          LET s == IF CharAt(text, pos + 2) \in HeredocMods
                   THEN pos + 3 ELSE pos + 2
              e == RunEnd(text, s, Upper)
          IN /\ NewTokens = <<Token(text, pos, "Punctuation", s),
                              Token(text, s, "Name.Constant", e)>>
             /\ pos' = e
             /\ statestack' = Append(statestack, "common__2")]_vars
  /\ [][Top(statestack) = "common__2" =>
          /\ statestack' = statestack
          /\ pc' = "scan" =>
               /\ Len(NewTokens) = 1
               /\ NewTokens[1].ttype = "String"]_vars
  /\ [](text = HeredocText /\ pos >= 6 =>
          /\ statestack = <<"root", "common__2">>
          /\ \A k \in DOMAIN tokens : k > 2 => tokens[k].ttype = "String")

\* the heredoc of the scenario has been scanned to the end of the text, its
\* tag a second time and a brace among the body
C10_Witness ==
  /\ text = HeredocText
  /\ pc = "done"
  /\ statestack = <<"root", "common__2">>
  /\ tokens[1] = Token(text, 0, "Punctuation", 3)
  /\ tokens[2] = Token(text, 3, "Name.Constant", 6)
  /\ Len(tokens) = 13

\* the characters the catch-all pattern for line breaks matches
LineBreaks == {"\n", "\r"}

\* no rule before the two catch-all rules of the active table matches at
\* the cursor
OnlyCatchAll ==
  /\ pc = "scan"
  /\ pos < Len(text)
  /\ LET rules == tokendefs(Top(statestack), text, pos)
     IN \A i \in 1..(Len(rules) - 2) : rules[i].m.end = Fail

\* C11 as claimed: where only the catch-all applies, a line break at the
\* cursor is yielded as one String token with the whole run of line breaks
\* that starts there, any other character as a String token of its own; no
\* two String tokens that follow one another are both line breaks.
C11_AsClaimed ==
  /\ [][OnlyCatchAll =>
          /\ statestack' = statestack
          /\ NewTokens =
               <<Token(text, pos, "String",
                       IF CharAt(text, pos) \in LineBreaks
                       THEN RunEnd(text, pos, LineBreaks) ELSE pos + 1)>>]_vars
  /\ [](\A k \in 1..(Len(tokens) - 1) :
          ~(/\ tokens[k].ttype = "String" /\ tokens[k + 1].ttype = "String"
            /\ tokens[k].value[1] \in LineBreaks
            /\ tokens[k + 1].value[1] \in LineBreaks))

\* C11 as amended: where only the catch-all applies, exactly one character
\* is yielded as a String token, a line feed or a carriage return like any
\* other character, and the stack stays as it is; the line breaks of a run
\* are String tokens of one character each, a carriage return and the line
\* feed after it included.
C11_CatchAll ==
  /\ [][OnlyCatchAll => OneCharToken("String")]_vars
  /\ [](\A k \in DOMAIN tokens :
          tokens[k].ttype = "String" => Len(tokens[k].value) = 1)

\* a carriage return and two line feeds have been scanned: three tokens
C11_Witness ==
  /\ pc = "done"
  /\ text = <<"\r", "\n", "\n">>
  /\ Len(tokens) = 3
  /\ \A k \in 1..3 : tokens[k] = Token(text, k - 1, "String", k)

\* the end of the match of the first of the rules of root that precede the
\* function-name rule and classify a word: number, type, keyword
EarlierWordRule(t, p) ==
  FirstOf(<<Number(t, p), TypeName(t, p), ControlWord(t, p)>>)

\* C13 (first match wins): in root, where the function-name rule would
\* match a word and the parenthesis after it and an earlier rule matches the
\* word alone, the earlier rule is taken: the step yields the one token of
\* the word, stops before the parenthesis and pushes nothing, and the
\* parenthesis is then yielded as a String token. true( is a Name.Constant
\* token and a String token, import( a Keyword token and a String token,
\* both with root alone on the stack.
C13_FirstMatch ==
  /\ [][pc = "scan" /\ Top(statestack) = "root"
          /\ FunctionOpen(text, pos).end # Fail
          /\ EarlierWordRule(text, pos) # Fail =>
          /\ pos' = EarlierWordRule(text, pos)
          /\ pos' < FunctionOpen(text, pos).end
          /\ CharAt(text, pos') = "("
          /\ statestack' = statestack
          /\ Len(NewTokens) = 1
          /\ NewTokens[1].ttype \in {"Name.Constant", "Keyword.Type", "Keyword"}
          /\ NewTokens[1].value = Slice(text, pos, pos')]_vars
  /\ [][AtChar("(", {"root"}) => OneCharToken("String")]_vars
  /\ [](text = TrueCallText /\ pc = "done" =>
          /\ tokens = <<Token(text, 0, "Name.Constant", 4),
                        Token(text, 4, "String", 5)>>
          /\ statestack = <<"root">>)
  /\ [](text = ImportCallText /\ pc = "done" =>
          /\ tokens = <<Token(text, 0, "Keyword", 6),
                        Token(text, 6, "String", 7)>>
          /\ statestack = <<"root">>)

\* true( has been scanned to its end
C13_Witness ==
  /\ text = TrueCallText
  /\ pc = "done"
  /\ Len(tokens) = 2
  /\ statestack = <<"root">>

\* C14 (function-name opener): in root, an identifier at the cursor that is
\* no literal, type or control word and has an opening parenthesis right
\* after it is yielded as a Name.Variable token, the parenthesis as a
\* Punctuation token, and params is pushed; what follows is scanned with
\* the params table (a closing brace after x( is a String token, not the
\* Generic.Error token of root).
C14_FunctionOpener ==
  /\ [][pc = "scan" /\ Top(statestack) = "root"
          /\ Ident(text, pos) # Fail
          /\ Slice(text, pos, Ident(text, pos)) \notin ReservedWords
          /\ CharAt(text, Ident(text, pos)) = "(" =>
          LET e == Ident(text, pos)
          IN /\ NewTokens = <<Token(text, pos, "Name.Variable", e),
                              Token(text, e, "Punctuation", e + 1)>>
             /\ pos' = e + 1
             /\ statestack' = Append(statestack, "params")]_vars
  /\ [](text = <<"x", "(", "}">> /\ pc = "done" =>
          /\ statestack = <<"root", "params">>
          /\ tokens[3] = Token(text, 2, "String", 3))

\* x(} has been scanned: the name, the parenthesis, the brace in params
C14_Witness ==
  /\ pc = "done"
  /\ text = <<"x", "(", "}">>
  /\ tokens = <<Token(text, 0, "Name.Variable", 1),
                Token(text, 1, "Punctuation", 2),
                Token(text, 2, "String", 3)>>
  /\ statestack = <<"root", "params">>

\* the token types of the rules of params
ParamsKinds == {"Keyword", "Keyword.Type", "Name.Variable", "String"}

\* C15 (params absorbing): with params on top no step changes the stack,
\* and every token yielded is a Keyword, Keyword.Type, Name.Variable or
\* String token; an opening brace, a quote and a heredoc opener push
\* nothing. In x(variadic fs y{"<<EOF#7) the stack stays root, params to
\* the end and variadic is the Keyword token.
C15_ParamsAbsorbing ==
  /\ [][Top(statestack) = "params" =>
          /\ statestack' = statestack
          /\ \A k \in DOMAIN NewTokens : NewTokens[k].ttype \in ParamsKinds]_vars
  /\ [][AtChar("{", {"params"}) \/ AtChar("\"", {"params"})
          => OneCharToken("String")]_vars
  /\ [][pc = "scan" /\ Top(statestack) = "params" /\ HeredocAt(text, pos)
          => OneCharToken("String")]_vars
  /\ [](text = ParamsText /\ pos >= 2 =>
          /\ statestack = <<"root", "params">>
          /\ \A k \in DOMAIN tokens :
               k > 2 => /\ tokens[k].ttype \in ParamsKinds
                        /\ tokens[k].ttype = "Keyword"
                             <=> tokens[k].value = W_variadic)

\* the parameter list of the scenario has been scanned to the end: the
\* brace, the quote and the comment sign in it are String tokens
C15_Witness ==
  /\ text = ParamsText
  /\ pc = "done"
  /\ statestack = <<"root", "params">>
  /\ Yielded(Token(text, 2, "Keyword", 10))
  /\ Yielded(Token(text, 11, "Keyword.Type", 13))
  /\ Yielded(Token(text, 14, "Name.Variable", 15))
  /\ Yielded(Token(text, 15, "String", 16))
  /\ Yielded(Token(text, 16, "String", 17))
  /\ Yielded(Token(text, 22, "String", 23))

\* C16 (string absorbing): a quote at the cursor in root or block is
\* yielded as a Punctuation token and pushes common__1; with common__1 on
\* top every step yields one String token of one character, a line break
\* and a later quote included, and leaves the stack as it is, to the end of
\* the text.
C16_StringAbsorbing ==
  /\ [][AtChar("\"", {"root", "block"}) =>
          /\ NewTokens = <<Token(text, pos, "Punctuation", pos + 1)>>
          /\ pos' = pos + 1
          /\ statestack' = Append(statestack, "common__1")]_vars
  /\ [][Top(statestack) = "common__1" =>
          /\ statestack' = statestack
          /\ pc' = "scan" => OneCharToken("String")]_vars
  /\ [](pc = "scan" /\ Top(statestack) = "common__1" => pos <= Len(text))

\* "x" has been scanned: the quote after the opening one is a String token
\* and the stack still ends with common__1
C16_Witness ==
  /\ pc = "done"
  /\ text = <<"\"", "x", "\"">>
  /\ statestack = <<"root", "common__1">>
  /\ tokens = <<Token(text, 0, "Punctuation", 1),
                Token(text, 1, "String", 2),
                Token(text, 2, "String", 3)>>

\* the states that occur only as the top of the stack
TopOnly == {"params", "binding", "common__1", "common__2"}

\* root, then blocks, then at most one of the states of TopOnly; params
\* directly above root, binding directly above a block
StackShape(st) ==
  /\ Len(st) >= 1
  /\ st[1] = "root"
  /\ \A i \in 2..Len(st) :
       /\ st[i] = "block" \/ (i = Len(st) /\ st[i] \in TopOnly)
       /\ st[i] = "params" => i = 2
       /\ st[i] = "binding" => st[i - 1] = "block"

\* C17 (stack shape): the stack is root, then zero or more blocks, then at
\* most one of params, binding, common__1, common__2 as its top; params
\* only directly above root, binding only directly above a block. With
\* block on top a step pushes a block only when a type name, blanks and an
\* opening brace are at the cursor, and consumes them; an opening brace at
\* the cursor is a String token and leaves the stack as it is.
C17_StackShape ==
  /\ [](StackShape(statestack))
  /\ [][Top(statestack) = "block" /\ statestack' = Append(statestack, "block") =>
          /\ TypeName(text, pos) # Fail
          /\ Blanks(text, TypeName(text, pos)) # Fail
          /\ CharAt(text, Blanks(text, TypeName(text, pos))) = "{"
          /\ pos' = Blanks(text, TypeName(text, pos)) + 1]_vars
  /\ [][AtChar("{", {"block"}) => OneCharToken("String")]_vars

\* {fs {as ( has been scanned: two blocks above root and binding on top
C17_Witness ==
  /\ pc = "done"
  /\ text = BindingText
  /\ statestack = <<"root", "block", "block", "binding">>

\* the offset of the first line break at or after offset p, the end of the
\* text when there is none
RECURSIVE LineEnd(_, _)
LineEnd(t, p) ==
  IF p >= Len(t) \/ CharAt(t, p) \in LineBreaks THEN p ELSE LineEnd(t, p + 1)

\* C18 (comment extent): a comment sign at the cursor in root or block
\* starts a Comment.Single token that ends before the next line break (a
\* line feed or a carriage return) or at the end of the text, and the step
\* leaves the stack as it is; no Comment.Single token has a line break in
\* its value.
C18_CommentExtent ==
  /\ [][AtChar("#", {"root", "block"}) =>
          /\ NewTokens = <<Token(text, pos, "Comment.Single", LineEnd(text, pos))>>
          /\ pos' = LineEnd(text, pos)
          /\ statestack' = statestack]_vars
  /\ [](\A k \in DOMAIN tokens :
          tokens[k].ttype = "Comment.Single" =>
            \A i \in DOMAIN tokens[k].value :
              tokens[k].value[i] \notin LineBreaks)

\* the characters of v from its k-th on are all in cls, and there is one
DigitsFrom(v, k, cls) ==
  Len(v) >= k /\ \A i \in k..Len(v) : v[i] \in cls

\* true, false, or a decimal integer: 0, or a digit other than 0 and digits
PlainNumber(v) ==
  \/ v \in {W_true, W_false}
  \/ v = <<"0">>
  \/ Len(v) >= 1 /\ v[1] \in Digits \ {"0"} /\ \A i \in 2..Len(v) : v[i] \in Digits

\* a prefixed integer whose digits are digits of the base of its prefix
StrictRadix(v) ==
  /\ Len(v) >= 3
  /\ v[1] = "0"
  /\ \/ v[2] \in {"b", "B"} /\ DigitsFrom(v, 3, {"0", "1"})
     \/ v[2] \in {"o", "O"} /\ DigitsFrom(v, 3, {"0","1","2","3","4","5","6","7"})
     \/ v[2] \in {"x", "X"} /\ DigitsFrom(v, 3, HexDigits)

\* a prefixed integer with hexadecimal digits after any of the prefixes
LooseRadix(v) ==
  /\ Len(v) >= 3
  /\ v[1] = "0"
  /\ v[2] \in {"b", "B", "o", "O", "x", "X"}
  /\ DigitsFrom(v, 3, HexDigits)

\* the step is in root or block and yields one Name.Constant token, the
\* token of the number rule (a heredoc tag is the second token of its step)
NumberStep ==
  /\ pc = "scan"
  /\ Top(statestack) \in {"root", "block"}
  /\ Len(NewTokens) = 1
  /\ NewTokens[1].ttype = "Name.Constant"

\* C19 as claimed: the value of every token of the number rule in root or
\* block is true, false, a decimal integer, or a prefixed integer whose
\* digits are valid for its prefix (0 and 1 after 0b, 0 to 7 after 0o,
\* hexadecimal digits after 0x).
C19_AsClaimed ==
  [][NumberStep =>
       PlainNumber(NewTokens[1].value) \/ StrictRadix(NewTokens[1].value)]_vars

\* C19 (number validity), amended: the value of every token of the number
\* rule in root or block is true, false, a decimal integer (0, or a digit
\* other than 0 and digits), or 0, one of b B o O x X and one or more
\* hexadecimal digits, whatever the prefix. Of 0b12 0o9 0xfF 07 10 0 true
\* the number tokens are 0b12, 0o9, 0xfF, 10, 0 and true; 07 is none.
C19_NumberValidity ==
  /\ [][NumberStep =>
          PlainNumber(NewTokens[1].value) \/ LooseRadix(NewTokens[1].value)]_vars
  /\ [](text = NumbersText /\ pc = "done" =>
          {tokens[k].value : k \in {i \in DOMAIN tokens :
                                      tokens[i].ttype = "Name.Constant"}}
            = {<<"0","b","1","2">>, <<"0","o","9">>, <<"0","x","f","F">>,
               <<"1","0">>, <<"0">>, W_true})

\* the numbers of the scenario have been scanned: 0b12 and 0o9 are
\* Name.Constant tokens, the 0 and the 7 of 07 String tokens
C19_Witness ==
  /\ text = NumbersText
  /\ pc = "done"
  /\ Yielded(Token(text, 0, "Name.Constant", 4))
  /\ Yielded(Token(text, 5, "Name.Constant", 8))
  /\ Yielded(Token(text, 14, "String", 15))
  /\ Yielded(Token(text, 15, "String", 16))
====
